---- MODULE Spec2Model ----
(***************************************************************************)
(* Model of CamoSphere (src/Camo_Sphere.py): the process-global numpy      *)
(* random source, the constructor that seeds it, and generate_camo_pattern *)
(* with numpy's shape and broadcasting rules.                              *)
(*                                                                         *)
(* Scaling: a noise sample in [0,1) is an integer number of hundredths     *)
(* (0..99); a combined value and a threshold are in thousandths; a colour  *)
(* channel is the 8-bit value of the CSS colour name (x/255 in the code).  *)
(***************************************************************************)
EXTENDS Integers, Sequences, FiniteSets, TLC

\* rng                 the process-global numpy random source
\* obj[o]              the fields of CamoSphere object o
\* out[o]              what o's last generate_camo_pattern call left behind
\* last                the last operation that touched the random source
\* calls               generate_camo_pattern calls made so far
\* filterRejectsEmpty  whether this build's gaussian_filter raises on a
\*                     zero-size array (the source does not decide it)
VARIABLES rng, obj, out, last, calls, filterRejectsEmpty

vars == <<rng, obj, out, last, calls, filterRejectsEmpty>>

\* ---------------------------------------------------------------- bounds
MaxSeed == 1
MaxCalls == 2

Seeds == 0..MaxSeed
Objects == {"A", "B"}
Resolutions == {-1, 0, 1, 4, 5, 8}

\* ------------------------------------------------------- program constants
Repeats == 4
WeightHigh == 6
WeightLow == 4
ThresholdBase == 650
ThresholdStep == 50
SigmaHighBase == 2
SigmaLow == 3

\* ------------------------------------------------------------ the palette
\* matplotlib.colors.to_rgb of the CSS names, as 8-bit channel values.
dark_green == <<0, 100, 0>>
forest_green == <<34, 139, 34>>
navy_blue == <<0, 0, 128>>
dark_brown == <<139, 69, 19>>
olive_green == <<128, 128, 0>>

camo_colors == <<dark_green, forest_green, navy_blue, dark_brown, olive_green>>

Black == <<0, 0, 0>>

\* ------------------------------------------------------------ numpy arrays
\* A 2-D array is [shape |-> <<h, w>>, at |-> its rows], built by Array from
\* the value at each 0-based index pair and read by At(a, r, c).  Rows are
\* kept as sequences; SubSeq makes TLC compute each element once.
Table(n, F(_)) == SubSeq([k \in 1..n |-> F(k - 1)], 1, n)

Array(h, w, F(_, _)) ==
    [shape |-> <<h, w>>,
     at |-> Table(h, LAMBDA r : Table(w, LAMBDA c : F(r, c)))]

At(a, r, c) == a.at[r + 1][c + 1]

Idx(n) == 0..(n - 1)

IsEmpty(a) == a.shape[1] * a.shape[2] = 0

\* numpy broadcasting of one dimension; -1 stands for "shapes do not match".
BroadcastDim(a, b) ==
    IF a = b THEN a ELSE IF a = 1 THEN b ELSE IF b = 1 THEN a ELSE -1

Broadcast(s, t) == <<BroadcastDim(s[1], t[1]), BroadcastDim(s[2], t[2])>>

Compatible(s, t) == Broadcast(s, t)[1] # -1 /\ Broadcast(s, t)[2] # -1

\* Read an operand at the result index <<r, c>>: a dimension of size 1 is
\* stretched.
BAt(a, r, c) ==
    At(a, IF a.shape[1] = 1 THEN 0 ELSE r, IF a.shape[2] = 1 THEN 0 ELSE c)

\* Assignment a[:, :, c] = value: value must broadcast TO the target shape.
CanAssign(src, dst) ==
    /\ src[1] = dst[1] \/ src[1] = 1
    /\ src[2] = dst[2] \/ src[2] = 1

\* ------------------------------------------------- the global random source
\* The k-th sample of the stream selected by a seed, in hundredths.  The
\* Mersenne Twister is abstracted to a fixed function of (seed, position).
Stream(seed, k) == (seed * 41 + 7 * k * k + 13 * k) % 100

\* Variant: the constructor stores the seed but does not seed the source.
SeedKept(g, s) == g

\* np.random.seed(s)
SeedReset(g, s) == [seed |-> s, cursor |-> 0]

\* np.random.rand(h, w): row-major fill from the cursor on.
Rand(g, h, w) ==
    Array(h, w, LAMBDA r, c : Stream(g.seed, g.cursor + r * w + c))

\* Variant: drawing does not move the cursor (as if re-seeded each time).
AdvanceNone(g, h, w) == g

Advance(g, h, w) == [g EXCEPT !.cursor = @ + h * w]

\* np.repeat(a, n, axis): every element n times in a row along the axis.
Repeat(a, n, axis) ==
    IF axis = 0
    THEN Array(n * a.shape[1], a.shape[2], LAMBDA r, c : At(a, r \div n, c))
    ELSE Array(a.shape[1], n * a.shape[2], LAMBDA r, c : At(a, r, c \div n))

\* scipy.ndimage.gaussian_filter, abstracted: a separable three-tap
\* smoothing with scipy's default 'reflect' boundary; the centre weight
\* falls as sigma grows.  It keeps the shape of its input.
Reflect(i, n) == IF i < 0 THEN 0 ELSE IF i >= n THEN n - 1 ELSE i

CentreWeight(sigma) == IF sigma >= 7 THEN 1 ELSE 8 - sigma

Smooth0(a, sigma) ==
    Array(a.shape[1], a.shape[2], LAMBDA r, c :
        (At(a, Reflect(r - 1, a.shape[1]), c)
         + CentreWeight(sigma) * At(a, r, c)
         + At(a, Reflect(r + 1, a.shape[1]), c))
        \div (CentreWeight(sigma) + 2))

Smooth1(a, sigma) ==
    Array(a.shape[1], a.shape[2], LAMBDA r, c :
        (At(a, r, Reflect(c - 1, a.shape[2]))
         + CentreWeight(sigma) * At(a, r, c)
         + At(a, r, Reflect(c + 1, a.shape[2])))
        \div (CentreWeight(sigma) + 2))

gaussian_filter(a, sigma) == Smooth1(Smooth0(a, sigma), sigma)

\* ------------------------------------------------- generate_camo_pattern
\* noise1 * 0.6 + noise2 * 0.4, in thousandths, with broadcasting.
Combine(n1, n2) ==
    LET s == Broadcast(n1.shape, n2.shape)
    IN  Array(s[1], s[2], LAMBDA r, c :
            WeightHigh * BAt(n1, r, c) + WeightLow * BAt(n2, r, c))

\* Variant: the threshold falls with the palette index.
ThresholdFalling(i) == ThresholdBase - i * ThresholdStep

Threshold(i) == ThresholdBase + i * ThresholdStep

\* combined_noise > threshold
Mask(combined_noise, i) ==
    Array(combined_noise.shape[1], combined_noise.shape[2], LAMBDA r, c :
        At(combined_noise, r, c) > Threshold(i))

\* np.zeros((resolution, resolution, 3))
Zeros(res) == Array(res, res, LAMBDA r, c : Black)

\* np.where(mask, x, y) for one cell and one channel
Where(m, x, y) == IF m THEN x ELSE y

\* Variant: a colour is written only where nothing was written before.
CompositeKeepFirst(pattern, mask, color) ==
    Array(pattern.shape[1], pattern.shape[2], LAMBDA r, c :
        IF BAt(mask, r, c) /\ At(pattern, r, c) = Black
        THEN color ELSE At(pattern, r, c))

\* for c in range(3): pattern[:, :, c] = np.where(mask, color[c], pattern[:, :, c])
Composite(pattern, mask, color) ==
    Array(pattern.shape[1], pattern.shape[2], LAMBDA r, c :
        LET m == BAt(mask, r, c)
            old == At(pattern, r, c)
        IN  <<Where(m, color[1], old[1]),
              Where(m, color[2], old[2]),
              Where(m, color[3], old[3])>>)

\* Variant: np.any in place of np.all.
BlackMaskAny(pattern) ==
    Array(pattern.shape[1], pattern.shape[2], LAMBDA r, c :
        \E ch \in 1..3 : At(pattern, r, c)[ch] = 0)

\* np.all(pattern == 0, axis=2)
BlackMask(pattern) ==
    Array(pattern.shape[1], pattern.shape[2], LAMBDA r, c :
        \A ch \in 1..3 : At(pattern, r, c)[ch] = 0)

\* Variant: each channel is filled where that channel alone is zero.
FallbackFillPerChannel(pattern, black_mask) ==
    Array(pattern.shape[1], pattern.shape[2], LAMBDA r, c :
        LET old == At(pattern, r, c)
        IN  <<Where(old[1] = 0, olive_green[1], old[1]),
              Where(old[2] = 0, olive_green[2], old[2]),
              Where(old[3] = 0, olive_green[3], old[3])>>)

\* for c in range(3): pattern[:, :, c] = np.where(black_mask, olive_green[c], ...)
FallbackFill(pattern, black_mask) ==
    Array(pattern.shape[1], pattern.shape[2], LAMBDA r, c :
        LET m == At(black_mask, r, c)
            old == At(pattern, r, c)
        IN  <<Where(m, olive_green[1], old[1]),
              Where(m, olive_green[2], old[2]),
              Where(m, olive_green[3], old[3])>>)

\* What a call leaves behind.  status is "running" until the call returns
\* or raises; error and line name the exception raised.  low, up and
\* combined_noise are the fields of the last pass of the loop (up is noise2
\* as upsampled, before it is smoothed); masks has the mask of every pass.
Empty == Array(0, 0, LAMBDA r, c : 0)

NoCall ==
    [status |-> "none", error |-> "", line |-> 0, randCalls |-> 0,
     pattern |-> Empty, black |-> Empty,
     low |-> Empty, up |-> Empty, combined_noise |-> Empty, masks |-> <<>>]

Raise(st, err, ln) == [st EXCEPT !.status = "raised", !.error = err, !.line = ln]

\* One pass of "for i, color in enumerate(camo_colors)" (i is 0-based);
\* g is the random source on entry.  The result pairs the locals with the
\* random source on exit.
LoopBody(i, st, g, res, rejectsEmpty) ==
    LET noise1 == Rand(g, res, res)
        g1 == Advance(g, res, res)
        low == Rand(g1, res \div Repeats, res \div Repeats)
        g2 == Advance(g1, res \div Repeats, res \div Repeats)
        noise2 == Repeat(Repeat(low, Repeats, 0), Repeats, 1)
        drawn == [st EXCEPT !.randCalls = @ + 2, !.low = low, !.up = noise2]
        smooth1 == gaussian_filter(noise1, SigmaHighBase + i)
        smooth2 == gaussian_filter(noise2, SigmaLow)
        combined_noise == Combine(smooth1, smooth2)
        mask == Mask(combined_noise, i)
        whereShape == Broadcast(mask.shape, st.pattern.shape)
    IN  IF rejectsEmpty /\ IsEmpty(noise1)
        THEN <<Raise(drawn, "RuntimeError", 91), g2>>
        ELSE IF rejectsEmpty /\ IsEmpty(noise2)
        THEN <<Raise(drawn, "RuntimeError", 92), g2>>
        ELSE IF ~Compatible(smooth1.shape, smooth2.shape)
        THEN <<Raise(drawn, "ValueError", 95), g2>>
        ELSE IF ~CanAssign(whereShape, st.pattern.shape)
        THEN <<Raise([drawn EXCEPT !.combined_noise = combined_noise,
                                   !.masks = Append(@, mask)],
                     "ValueError", 103), g2>>
        ELSE <<[drawn EXCEPT
                  !.combined_noise = combined_noise,
                  !.masks = Append(@, mask),
                  !.pattern = Composite(@, mask, camo_colors[i + 1])],
               g2>>

RECURSIVE Loop(_, _, _, _, _)
Loop(i, st, g, res, rejectsEmpty) ==
    IF i = Len(camo_colors) \/ st.status = "raised"
    THEN <<st, g>>
    ELSE LET r == LoopBody(i, st, g, res, rejectsEmpty)
         IN  Loop(i + 1, r[1], r[2], res, rejectsEmpty)

\* generate_camo_pattern: <<outcome, random source afterwards>>.
generate_camo_pattern(res, g, rejectsEmpty) ==
    IF res < 0
    THEN <<Raise(NoCall, "ValueError", 81), g>>
    ELSE LET r == Loop(0, [NoCall EXCEPT !.status = "running",
                                         !.pattern = Zeros(res)],
                       g, res, rejectsEmpty)
             st == r[1]
             black_mask == BlackMask(st.pattern)
         IN  IF st.status = "raised"
             THEN r
             ELSE <<[st EXCEPT !.status = "returned",
                               !.black = black_mask,
                               !.pattern = FallbackFill(@, black_mask)],
                    r[2]>>

\* ------------------------------------------------------------- the machine
NoObject == [constructed |-> FALSE, resolution |-> 0, seed |-> 0]

\* out[o]: start and stop are the cursor of the random source on entry and
\* on exit, rngSeed its seed, and after is the operation that preceded the
\* call.
NoOp == [op |-> "none", by |-> "none"]

NoOutcome == [call |-> NoCall, start |-> 0, stop |-> 0, rngSeed |-> 0,
              after |-> NoOp]

Init ==
    /\ rng \in [seed : Seeds, cursor : {0}]
    /\ obj = [o \in Objects |-> NoObject]
    /\ out = [o \in Objects |-> NoOutcome]
    /\ last = NoOp
    /\ calls = 0
    /\ filterRejectsEmpty \in BOOLEAN

\* CamoSphere(resolution=res, seed=seed)
Construct(o, res, seed) ==
    /\ ~obj[o].constructed
    /\ obj' = [obj EXCEPT ![o] = [constructed |-> TRUE, resolution |-> res,
                                  seed |-> seed]]
    /\ rng' = SeedReset(rng, seed)
    /\ last' = [op |-> "construct", by |-> o]
    /\ UNCHANGED <<out, calls, filterRejectsEmpty>>

\* o.generate_camo_pattern(); r is the call's <<outcome, random source>>.
Generate(o) ==
    /\ obj[o].constructed
    /\ calls < MaxCalls
    /\ \E r \in {generate_camo_pattern(obj[o].resolution, rng, filterRejectsEmpty)} :
           /\ out' = [out EXCEPT ![o] =
                        [call |-> r[1], start |-> rng.cursor,
                         stop |-> r[2].cursor, rngSeed |-> rng.seed,
                         after |-> last]]
           /\ rng' = r[2]
    /\ last' = [op |-> "generate", by |-> o]
    /\ calls' = calls + 1
    /\ UNCHANGED <<obj, filterRejectsEmpty>>

Next ==
    \/ \E o \in Objects, res \in Resolutions, seed \in Seeds :
          Construct(o, res, seed)
    \/ \E o \in Objects : Generate(o)

Spec == Init /\ [][Next]_vars

\* ------------------------------------------------------------- vocabulary
Called(o) == out[o].call.status # "none"
Returned(o) == out[o].call.status = "returned"
Raised(o) == out[o].call.status = "raised"

Palette == {camo_colors[i] : i \in 1..Len(camo_colors)}

CellsOf(a) == Idx(a.shape[1]) \X Idx(a.shape[2])

\* The 1-based palette positions whose mask claims cell <<r, c>>.
Claimants(call, r, c) == {i \in 1..Len(call.masks) : BAt(call.masks[i], r, c)}

Highest(S) == CHOOSE i \in S : \A j \in S : j <= i

\* o was called right after its own construction.
Fresh(o) == out[o].after = [op |-> "construct", by |-> o]

\* C1: after generate_camo_pattern returns, every cell of the pattern holds
\* one of the five palette colours or the fallback colour; none holds the
\* zero sentinel and none mixes the channels of two colours.
C1_Coverage ==
    \A o \in Objects : Returned(o) =>
        \A p \in CellsOf(out[o].call.pattern) :
            /\ At(out[o].call.pattern, p[1], p[2]) \in Palette \cup {olive_green}
            /\ At(out[o].call.pattern, p[1], p[2]) # Black

\* A returned pattern with a fallback-filled cell and a cell of a palette
\* colour that has a zero channel.
C1_Witness ==
    \E o \in Objects : Returned(o) /\
        \E p, q \in CellsOf(out[o].call.pattern) :
            /\ At(out[o].call.black, p[1], p[2])
            /\ At(out[o].call.pattern, p[1], p[2]) = olive_green
            /\ At(out[o].call.pattern, q[1], q[2]) \in {dark_green, navy_blue}

\* C2: compositing is overwrite in palette order: a cell claimed by the masks
\* of several palette entries holds, after all entries are composited, the
\* colour of the highest palette index whose mask claims it.
C2_LaterWins ==
    \A o \in Objects : Returned(o) =>
        \A p \in CellsOf(out[o].call.pattern) :
            Claimants(out[o].call, p[1], p[2]) # {} =>
                At(out[o].call.pattern, p[1], p[2])
                    = camo_colors[Highest(Claimants(out[o].call, p[1], p[2]))]

\* A returned pattern with a cell that two masks claimed.
C2_Witness ==
    \E o \in Objects : Returned(o) /\
        \E p \in CellsOf(out[o].call.pattern) :
            Cardinality(Claimants(out[o].call, p[1], p[2])) >= 2

\* C3: two objects constructed with the same resolution and seed, each
\* called once right after its construction, end with identical patterns.
C3_Determinism ==
    \A a, b \in Objects :
        (/\ Called(a) /\ Called(b)
         /\ Fresh(a) /\ Fresh(b)
         /\ obj[a].resolution = obj[b].resolution
         /\ obj[a].seed = obj[b].seed)
        => /\ out[a].call.status = out[b].call.status
           /\ out[a].call.pattern = out[b].call.pattern

\* Two distinct objects with equal arguments, both called fresh, holding a
\* pattern of more than one colour.
C3_Witness ==
    \E a, b \in Objects :
        /\ a # b
        /\ Returned(a) /\ Returned(b)
        /\ Fresh(a) /\ Fresh(b)
        /\ obj[a].resolution = obj[b].resolution
        /\ obj[a].seed = obj[b].seed
        /\ \E p, q \in CellsOf(out[a].call.pattern) :
              At(out[a].call.pattern, p[1], p[2])
                  # At(out[a].call.pattern, q[1], q[2])

\* C8: the fallback fill touches exactly the unclaimed cells: a cell is
\* overwritten with the fallback colour in the final step if and only if no
\* mask claimed it, and a claimed cell keeps its winning palette colour.
C8_FallbackExact ==
    \A o \in Objects : Returned(o) =>
        \A p \in CellsOf(out[o].call.pattern) :
            LET claimed == Claimants(out[o].call, p[1], p[2])
                cell == At(out[o].call.pattern, p[1], p[2])
            IN  /\ At(out[o].call.black, p[1], p[2]) <=> claimed = {}
                /\ claimed = {} => cell = olive_green
                /\ claimed # {} => cell = camo_colors[Highest(claimed)]

\* A returned pattern with an unclaimed cell and a claimed cell whose
\* colour has a zero channel.
C8_Witness ==
    \E o \in Objects : Returned(o) /\
        \E p, q \in CellsOf(out[o].call.pattern) :
            /\ Claimants(out[o].call, p[1], p[2]) = {}
            /\ Claimants(out[o].call, q[1], q[2]) # {}
            /\ \E ch \in 1..3 : At(out[o].call.pattern, q[1], q[2])[ch] = 0

\* C10: the threshold of palette index i is 0.65 + 0.05 i, strictly
\* increasing in i, the mask is the set of cells strictly above it, and on
\* one combined noise field the mask of a higher index is a subset of the
\* mask of a lower index.
C10_ThresholdMonotone ==
    /\ \A i \in Idx(Len(camo_colors)) : Threshold(i) = 650 + 50 * i
    /\ \A i, j \in Idx(Len(camo_colors)) : i < j => Threshold(i) < Threshold(j)
    /\ \A o \in Objects : Returned(o) =>
          LET field == out[o].call.combined_noise
              masks == Table(Len(camo_colors), LAMBDA i : Mask(field, i))
          IN  \A i, j \in Idx(Len(camo_colors)) : i < j =>
                  \A p \in CellsOf(field) :
                      /\ At(masks[i + 1], p[1], p[2])
                            <=> At(field, p[1], p[2]) > Threshold(i)
                      /\ At(masks[j + 1], p[1], p[2])
                            => At(masks[i + 1], p[1], p[2])

\* A combined field on which the mask of index 1 is non-empty and strictly
\* smaller than the mask of index 0.
C10_Witness ==
    \E o \in Objects : Returned(o) /\
        \E p, q \in CellsOf(out[o].call.combined_noise) :
            /\ At(Mask(out[o].call.combined_noise, 1), p[1], p[2])
            /\ At(Mask(out[o].call.combined_noise, 0), q[1], q[2])
            /\ ~At(Mask(out[o].call.combined_noise, 1), q[1], q[2])

\* C4: for every resolution in {1, 4, 5, 50, 100} generate_camo_pattern
\* returns a pattern of shape (resolution, resolution, 3), and the
\* high-frequency field and the upsampled low-frequency field have the same
\* shape when they are combined.  (Stated as claimed; the code breaks it.)
C4_ShapeAsClaimed ==
    \A o \in Objects :
        (Called(o) /\ obj[o].resolution \in {1, 4, 5, 50, 100}) =>
            /\ Returned(o)
            /\ out[o].call.pattern.shape
                  = <<obj[o].resolution, obj[o].resolution>>
            /\ out[o].call.up.shape
                  = <<obj[o].resolution, obj[o].resolution>>

\* C5: with resolution = 1 generate_camo_pattern does not raise and returns
\* a 1x1 pattern whose cell holds a palette or fallback colour.  (Stated as
\* claimed; the code breaks it.)
C5_ResolutionOneAsClaimed ==
    \A o \in Objects :
        (Called(o) /\ obj[o].resolution = 1) =>
            /\ Returned(o)
            /\ out[o].call.pattern.shape = <<1, 1>>
            /\ At(out[o].call.pattern, 0, 0) \in Palette \cup {olive_green}

\* C6: a non-positive resolution is rejected with an invalid-argument error
\* at the start of generation, before any noise is drawn and without
\* returning a pattern.  (Stated as claimed; the code breaks it.)
C6_RejectAsClaimed ==
    \A o \in Objects :
        (Called(o) /\ obj[o].resolution <= 0) =>
            /\ Raised(o)
            /\ out[o].call.error = "ValueError"
            /\ out[o].call.randCalls = 0

\* C7: the random source is seeded only in the constructor.  A generate
\* call keeps the seed and moves the cursor forward; a second call on the
\* same object starts where its first call stopped, draws a later segment
\* of the stream and does not reproduce the first call's noise fields.
C7_SeededOnlyInConstructor ==
    [][calls' = calls + 1 =>
        /\ rng'.seed = rng.seed
        /\ \A o \in Objects : last' = [op |-> "generate", by |-> o] =>
              /\ out'[o].start = rng.cursor
              /\ out'[o].stop = rng'.cursor
              /\ out'[o].start <= out'[o].stop
              /\ last = [op |-> "generate", by |-> o] =>
                    /\ out'[o].rngSeed = out[o].rngSeed
                    /\ out'[o].start = out[o].stop
                    /\ obj[o].resolution >= 1 => out'[o].start < out'[o].stop
                    /\ out'[o].call.status = "returned"
                          /\ obj[o].resolution >= 1 =>
                          <<out'[o].call.low, out'[o].call.combined_noise>>
                              # <<out[o].call.low, out[o].call.combined_noise>>
    ]_vars

\* An object whose last call came right after an earlier call of its own,
\* began past the start of the stream and returned a pattern.
C7_Witness ==
    \E o \in Objects :
        /\ Returned(o)
        /\ obj[o].resolution >= 4
        /\ out[o].after = [op |-> "generate", by |-> o]
        /\ out[o].start > 0
        /\ out[o].stop > out[o].start

\* C9: for every resolution >= 1 the low-frequency field is upsampled to
\* exactly resolution x resolution by block replication: the upsampled value
\* at (r, c) is the low-resolution value at (r div 4, c div 4).  (Stated as
\* claimed; the code breaks it.)
C9_UpsampleAsClaimed ==
    \A o \in Objects :
        (Called(o) /\ obj[o].resolution >= 1) =>
            /\ out[o].call.up.shape = <<obj[o].resolution, obj[o].resolution>>
            /\ \A r, c \in Idx(obj[o].resolution) :
                  At(out[o].call.up, r, c)
                      = At(out[o].call.low, r \div Repeats, c \div Repeats)

====
